---- MODULE Spec2Model ----
(***************************************************************************)
(* Pronunciation-analysis engine of whisper-web (utils/PhonemeUtils):      *)
(* calculatePhonemeAccuracy, analyzePronunciationIssues and                *)
(* calculateOverallAccuracy, applied to an expected passage and an actual  *)
(* transcription, and the PronunciationTrainer component that records the  *)
(* attempts.  A text is a sequence of one-character strings.               *)
(***************************************************************************)
EXTENDS Integers, Sequences, FiniteSets, TLC

VARIABLES expected, actual, pc, issues, accuracyScore, wordAccuracy,
          stringSimilarity, tips, attempts, gameState, highlighted

vars == <<expected, actual, pc, issues, accuracyScore, wordAccuracy,
          stringSimilarity, tips, attempts, gameState, highlighted>>

\* The state of the PronunciationTrainer component and of its feedback view.
trainerVars == <<attempts, gameState, highlighted>>

(***************************************************************************)
(* Bounds of the input space.                                              *)
(***************************************************************************)
MaxWords == 2

MaxIssues == 4

MaxAttempts == 3

(***************************************************************************)
(* String primitives of the JavaScript runtime used by the engine.         *)
(***************************************************************************)
WhiteSpace == {" ", "\t"}

UpperCase == <<"A","B","C","D","E","F","G","H","I","J","K","L","M",
               "N","O","P","Q","R","S","T","U","V","W","X","Y","Z">>

LowerCase == <<"a","b","c","d","e","f","g","h","i","j","k","l","m",
               "n","o","p","q","r","s","t","u","v","w","x","y","z">>

lowerCaseOf ==
    [c \in { UpperCase[k] : k \in 1..Len(UpperCase) } |->
        LowerCase[CHOOSE k \in 1..Len(UpperCase) : UpperCase[k] = c]]

toLowerCaseChar(c) == IF c \in DOMAIN lowerCaseOf THEN lowerCaseOf[c] ELSE c

toLowerCase(s) == [k \in 1..Len(s) |-> toLowerCaseChar(s[k])]

\* String.prototype.trim: drops the leading and the trailing white space.
RECURSIVE trimStart(_)
trimStart(s) ==
    IF s # <<>> /\ Head(s) \in WhiteSpace THEN trimStart(Tail(s)) ELSE s

RECURSIVE trimEnd(_)
trimEnd(s) ==
    IF s # <<>> /\ s[Len(s)] \in WhiteSpace
    THEN trimEnd(SubSeq(s, 1, Len(s) - 1))
    ELSE s

trim(s) == trimEnd(trimStart(s))

\* String.prototype.includes: sub occurs in s as a contiguous substring.
includes(s, sub) ==
    \E k \in 0..(Len(s) - Len(sub)) : SubSeq(s, k + 1, k + Len(sub)) = sub

\* String.prototype.split(/\s+/): the pieces between the maximal runs of
\* white space; a leading or trailing run leaves an empty piece, and the
\* empty string splits into one empty piece.
RECURSIVE splitFrom(_, _, _, _)
splitFrom(s, k, piece, pieces) ==
    IF k > Len(s) THEN Append(pieces, piece)
    ELSE IF s[k] \in WhiteSpace
         THEN IF k > 1 /\ s[k - 1] \in WhiteSpace
              THEN splitFrom(s, k + 1, piece, pieces)
              ELSE splitFrom(s, k + 1, <<>>, Append(pieces, piece))
         ELSE splitFrom(s, k + 1, Append(piece, s[k]), pieces)

split(s) == splitFrom(s, 1, <<>>, <<>>)

Max(a, b) == IF a >= b THEN a ELSE b

Min(a, b) == IF a <= b THEN a ELSE b

\* Math.round(num / den) for integers num >= 0, den > 0: halves round up.
\* (The quotient of two small integers is never rounded across a half, so
\* the exact quotient decides.)
round(num, den) == (2 * num + den) \div (2 * den)

(***************************************************************************)
(* Number arithmetic.  A similarity is a Number (IEEE 754 double): the     *)
(* quotient of two integers rounded to 53 significant bits, and its        *)
(* product with 100 is rounded again before Math.round sees it.  A         *)
(* positive double is [mant, exp]: 53 bits, most significant first and     *)
(* leading bit 1, standing for the integer mant times 2^exp.               *)
(***************************************************************************)
zeroBits(n) == [k \in 1..n |-> 0]

\* The integer a bit sequence stands for (used on short sequences only).
RECURSIVE bitsValue(_)
bitsValue(bits) ==
    IF bits = <<>> THEN 0
    ELSE 2 * bitsValue(SubSeq(bits, 1, Len(bits) - 1)) + bits[Len(bits)]

\* bits + 1, one bit longer when every bit is 1.
incrementBits(bits) ==
    LET zeros == { k \in 1..Len(bits) : bits[k] = 0 }
    IN  IF zeros = {} THEN <<1>> \o zeroBits(Len(bits))
        ELSE LET last == CHOOSE k \in zeros : \A j \in zeros : j <= k
             IN  [k \in 1..Len(bits) |->
                    IF k < last THEN bits[k] ELSE IF k = last THEN 1 ELSE 0]

\* The sum of two bit sequences of one length, without the final carry
\* (the callers leave room for it).
RECURSIVE addBitsFrom(_, _, _, _, _)
addBitsFrom(a, b, k, carry, sum) ==
    IF k = 0 THEN sum
    ELSE LET total == a[k] + b[k] + carry
             longer == <<total % 2>> \o sum
         IN  \* The test makes the evaluator build the sum digit by digit
             \* instead of nesting one pending digit per position.
             IF Len(longer) > Len(sum)
             THEN addBitsFrom(a, b, k - 1, total \div 2, longer)
             ELSE <<>>

addBits(a, b) == addBitsFrom(a, b, Len(a), 0, <<>>)

RECURSIVE dropLeadingZeros(_)
dropLeadingZeros(bits) ==
    IF bits # <<>> /\ bits[1] = 0 THEN dropLeadingZeros(Tail(bits)) ELSE bits

\* Round to nearest, ties to even: bits (at least 54 of them, leading bit 1)
\* and sticky (something non-zero lies beyond them) to a double whose last
\* kept bit has weight 2^lastExp.
roundToDouble(bits, sticky, lastExp) ==
    LET kept == SubSeq(bits, 1, 53)
        beyond == sticky \/ \E k \in 55..Len(bits) : bits[k] = 1
        up == bits[54] = 1 /\ (beyond \/ kept[53] = 1)
        raised == incrementBits(kept)
    IN  IF ~up THEN [mant |-> kept, exp |-> lastExp]
        ELSE IF Len(raised) = 53 THEN [mant |-> raised, exp |-> lastExp]
        ELSE [mant |-> SubSeq(raised, 1, 53), exp |-> lastExp + 1]

\* The binary expansion of r / den (0 < r < den) from its first 1 bit on,
\* 54 bits of it, with the number of zero bits before it and whether a
\* remainder is left.
RECURSIVE quotientBits(_, _, _, _)
quotientBits(r, den, bits, skipped) ==
    IF Len(bits) = 54
    THEN [bits |-> bits, skipped |-> skipped, sticky |-> r # 0]
    ELSE LET bit == IF 2 * r >= den THEN 1 ELSE 0
             rest == 2 * r - bit * den
         IN  IF bits = <<>> /\ bit = 0
             THEN quotientBits(rest, den, bits, skipped + 1)
             ELSE quotientBits(rest, den, Append(bits, bit), skipped)

\* num / den for 0 < num < den.
divide(num, den) ==
    LET q == quotientBits(num, den, <<>>, 0)
    IN  roundToDouble(q.bits, q.sticky, -(q.skipped + 53))

\* x * 100: 100 = 64 + 32 + 4.
times100(x) ==
    LET wide(shift) == zeroBits(7 - shift) \o x.mant \o zeroBits(shift)
        product == dropLeadingZeros(addBits(addBits(wide(6), wide(5)), wide(2)))
    IN  roundToDouble(product, FALSE, x.exp + Len(product) - 53)

\* Math.round of a positive double below 2^52: the integer part, plus one
\* when the fraction is at least one half.
mathRound(x) ==
    LET integerBits == 53 + x.exp
    IN  IF integerBits < 0 THEN 0
        ELSE bitsValue(SubSeq(x.mant, 1, integerBits)) + x.mant[integerBits + 1]

\* Math.round(similarity * 100) for the similarity num / den, 0 <= num <= den.
roundPercent(similarity) ==
    IF similarity[1] = 0 THEN 0
    ELSE IF similarity[1] = similarity[2] THEN 100
    ELSE mathRound(times100(divide(similarity[1], similarity[2])))

(***************************************************************************)
(* DIFFICULTY_PATTERNS: each table is a set of <<key, value>> entries.     *)
(***************************************************************************)
\* Mutant: the whole-word tables list each pair in one direction only.
DIFFICULTY_PATTERNS_OneWay ==
    [ r_l_confusion |->
        { << <<"r">>, <<"l">> >>,
          << <<"r","e","d">>, <<"l","e","d">> >>,
          << <<"r","i","g","h","t">>, <<"l","i","g","h","t">> >> },
      th_substitution |->
        { << <<"t","h">>,
             { <<"f">>, <<"v">>, <<"d">>, <<"t">>, <<"s">>, <<"z">> } >>,
          << <<"t","h","i","n","k">>,
             { <<"f","i","n","k">>, <<"t","i","n","k">>, <<"s","i","n","k">> } >>,
          << <<"t","h","i","s">>,
             { <<"d","i","s">>, <<"v","i","s">> } >> },
      vowel_confusion |->
        { << <<"s","h","e","e","p">>, <<"s","h","i","p">> >>,
          << <<"b","e","a","c","h">>, <<"b","i","t","c","h">> >>,
          << <<"f","u","l","l">>, <<"f","o","o","l">> >> } ]

DIFFICULTY_PATTERNS ==
    [ r_l_confusion |->
        { << <<"r">>, <<"l">> >>, << <<"l">>, <<"r">> >>,
          << <<"r","e","d">>, <<"l","e","d">> >>,
          << <<"l","e","d">>, <<"r","e","d">> >>,
          << <<"r","i","g","h","t">>, <<"l","i","g","h","t">> >>,
          << <<"l","i","g","h","t">>, <<"r","i","g","h","t">> >> },
      th_substitution |->
        { << <<"t","h">>,
             { <<"f">>, <<"v">>, <<"d">>, <<"t">>, <<"s">>, <<"z">> } >>,
          << <<"t","h","i","n","k">>,
             { <<"f","i","n","k">>, <<"t","i","n","k">>, <<"s","i","n","k">> } >>,
          << <<"t","h","i","s">>,
             { <<"d","i","s">>, <<"v","i","s">> } >> },
      vowel_confusion |->
        { << <<"s","h","e","e","p">>, <<"s","h","i","p">> >>,
          << <<"s","h","i","p">>, <<"s","h","e","e","p">> >>,
          << <<"b","e","a","c","h">>, <<"b","i","t","c","h">> >>,
          << <<"b","i","t","c","h">>, <<"b","e","a","c","h">> >>,
          << <<"f","u","l","l">>, <<"f","o","o","l">> >>,
          << <<"f","o","o","l">>, <<"f","u","l","l">> >> } ]

isCommonSubstitution(e, a) ==
    \/ \E entry \in DIFFICULTY_PATTERNS.r_l_confusion :
          entry[1] = e /\ entry[2] = a
    \/ \E entry \in DIFFICULTY_PATTERNS.th_substitution :
          /\ includes(e, entry[1])
          /\ \E sub \in entry[2] : includes(a, sub)
    \/ \E entry \in DIFFICULTY_PATTERNS.vowel_confusion :
          entry[1] = e /\ entry[2] = a

(***************************************************************************)
(* calculateStringSimilarity: the Levenshtein matrix, one row per          *)
(* character of str2 and one column per character of str1; the result is   *)
(* the fraction <<numerator, denominator>>.                                *)
(***************************************************************************)
\* Mutant: a differing character costs an insertion or a deletion only.
RECURSIVE fillRow_NoSubstitution(_, _, _, _, _)
fillRow_NoSubstitution(str1, str2, i, above, row) ==
    LET j == Len(row)
    IN  IF j > Len(str1) THEN row
        ELSE LET cell == IF str2[i] = str1[j]
                         THEN above[j]
                         ELSE Min(row[j] + 1, above[j + 1] + 1)
             IN  fillRow_NoSubstitution(str1, str2, i, above, Append(row, cell))

RECURSIVE fillRow(_, _, _, _, _)
fillRow(str1, str2, i, above, row) ==
    LET j == Len(row)
    IN  IF j > Len(str1) THEN row
        ELSE LET cell == IF str2[i] = str1[j]
                         THEN above[j]
                         ELSE Min(above[j] + 1, Min(row[j] + 1, above[j + 1] + 1))
             IN  fillRow(str1, str2, i, above, Append(row, cell))

\* Every row has Len(str1) + 1 cells; the test on the length has the row
\* computed before the next one is started.
RECURSIVE fillMatrix(_, _, _, _)
fillMatrix(str1, str2, i, above) ==
    IF i > Len(str2) THEN above
    ELSE LET row == fillRow(str1, str2, i, above, <<i>>)
         IN  IF Len(row) = Len(above)
             THEN fillMatrix(str1, str2, i + 1, row)
             ELSE <<>>

levenshtein(str1, str2) ==
    fillMatrix(str1, str2, 1, [j \in 1..(Len(str1) + 1) |-> j - 1])[Len(str1) + 1]

\* Mutant: the distance is related to the shorter length.
calculateStringSimilarity_MinLen(str1, str2) ==
    IF Len(str1) = 0 THEN (IF Len(str2) = 0 THEN <<1, 1>> ELSE <<0, 1>>)
    ELSE IF Len(str2) = 0 THEN <<0, 1>>
    ELSE LET maxLen == Min(Len(str1), Len(str2))
         IN  <<maxLen - levenshtein(str1, str2), maxLen>>

\* Mutant: the two tests for an empty string are left out.
calculateStringSimilarity_NoEmptyGuard(str1, str2) ==
    LET maxLen == Max(Len(str1), Len(str2))
    IN  <<maxLen - levenshtein(str1, str2), maxLen>>

calculateStringSimilarity(str1, str2) ==
    IF Len(str1) = 0 THEN (IF Len(str2) = 0 THEN <<1, 1>> ELSE <<0, 1>>)
    ELSE IF Len(str2) = 0 THEN <<0, 1>>
    ELSE LET maxLen == Max(Len(str1), Len(str2))
         IN  <<maxLen - levenshtein(str1, str2), maxLen>>

(***************************************************************************)
(* calculatePhonemeAccuracy: the score of one expected/actual word pair.   *)
(***************************************************************************)
\* Mutant: the knowledge-base branch is left out.
calculatePhonemeAccuracy_NoKnowledgeBase(e, a) ==
    IF e = <<>> \/ a = <<>> THEN 0
    ELSE LET expectedLower == trim(toLowerCase(e))
             actualLower == trim(toLowerCase(a))
             similarity == calculateStringSimilarity(expectedLower, actualLower)
         IN  IF expectedLower = actualLower THEN 100
             ELSE roundPercent(similarity)

\* Mutant: the knowledge base is consulted before the exact match.
calculatePhonemeAccuracy_KnowledgeBaseFirst(e, a) ==
    IF e = <<>> \/ a = <<>> THEN 0
    ELSE LET expectedLower == trim(toLowerCase(e))
             actualLower == trim(toLowerCase(a))
             similarity == calculateStringSimilarity(expectedLower, actualLower)
         IN  IF isCommonSubstitution(expectedLower, actualLower) THEN 75
             ELSE IF expectedLower = actualLower THEN 100
             ELSE roundPercent(similarity)

calculatePhonemeAccuracy(e, a) ==
    IF e = <<>> \/ a = <<>> THEN 0
    ELSE LET expectedLower == trim(toLowerCase(e))
             actualLower == trim(toLowerCase(a))
             similarity == calculateStringSimilarity(expectedLower, actualLower)
         IN  IF expectedLower = actualLower THEN 100
             ELSE IF isCommonSubstitution(expectedLower, actualLower) THEN 75
             ELSE roundPercent(similarity)

(***************************************************************************)
(* determineIssueType: the category of a mismatched pair of words.         *)
(***************************************************************************)
\* Mutant: the similarity is tested before the knowledge base.
determineIssueType_SimilarityFirst(e, a) ==
    IF a = <<>> THEN "missing"
    ELSE IF e = <<>> THEN "extra"
    ELSE LET similarity == calculateStringSimilarity(e, a)
         IN  IF 10 * similarity[1] > 7 * similarity[2]
             THEN "slight_mispronunciation"
             ELSE IF isCommonSubstitution(e, a)
                  THEN IF includes(e, <<"t","h">>) THEN "th_sound"
                       ELSE IF \/ includes(e, <<"r">>) /\ includes(a, <<"l">>)
                               \/ includes(e, <<"l">>) /\ includes(a, <<"r">>)
                            THEN "r_l_confusion"
                            ELSE "vowel_confusion"
                  ELSE "substitution"

\* Mutant: the R/L test comes before the "th" test.
determineIssueType_RLFirst(e, a) ==
    IF a = <<>> THEN "missing"
    ELSE IF e = <<>> THEN "extra"
    ELSE IF isCommonSubstitution(e, a)
         THEN IF \/ includes(e, <<"r">>) /\ includes(a, <<"l">>)
                 \/ includes(e, <<"l">>) /\ includes(a, <<"r">>)
              THEN "r_l_confusion"
              ELSE IF includes(e, <<"t","h">>) THEN "th_sound"
                   ELSE "vowel_confusion"
    ELSE LET similarity == calculateStringSimilarity(e, a)
         IN  IF 10 * similarity[1] > 7 * similarity[2]
             THEN "slight_mispronunciation"
             ELSE "substitution"

\* Mutant: a similarity of exactly 0.7 counts as close.
determineIssueType_AtLeast(e, a) ==
    IF a = <<>> THEN "missing"
    ELSE IF e = <<>> THEN "extra"
    ELSE IF isCommonSubstitution(e, a)
         THEN IF includes(e, <<"t","h">>) THEN "th_sound"
              ELSE IF \/ includes(e, <<"r">>) /\ includes(a, <<"l">>)
                      \/ includes(e, <<"l">>) /\ includes(a, <<"r">>)
                   THEN "r_l_confusion"
                   ELSE "vowel_confusion"
    ELSE LET similarity == calculateStringSimilarity(e, a)
         IN  IF 10 * similarity[1] >= 7 * similarity[2]
             THEN "slight_mispronunciation"
             ELSE "substitution"

determineIssueType(e, a) ==
    IF a = <<>> THEN "missing"
    ELSE IF e = <<>> THEN "extra"
    ELSE IF isCommonSubstitution(e, a)
         THEN IF includes(e, <<"t","h">>) THEN "th_sound"
              ELSE IF \/ includes(e, <<"r">>) /\ includes(a, <<"l">>)
                      \/ includes(e, <<"l">>) /\ includes(a, <<"r">>)
                   THEN "r_l_confusion"
                   ELSE "vowel_confusion"
    ELSE LET similarity == calculateStringSimilarity(e, a)
         IN  IF 10 * similarity[1] > 7 * similarity[2]
             THEN "slight_mispronunciation"
             ELSE "substitution"

(***************************************************************************)
(* analyzePronunciationIssues: one pass over the slots 0..maxLength-1.     *)
(* wordAt is `words[i] || ''`: an index past the end reads as ''.          *)
(***************************************************************************)
wordAt(words, i) == IF i < Len(words) THEN words[i + 1] ELSE <<>>

Issue(w, e, a, i, acc, t) ==
    [word |-> w, expected |-> e, actual |-> a, position |-> i,
     accuracy |-> acc, type |-> t]

\* Mutant: a populated slot is reported at every accuracy, 100 included.
issuesAtSlot_AtMost100(expectedWords, actualWords, i) ==
    LET expectedWord == wordAt(expectedWords, i)
        actualWord == wordAt(actualWords, i)
        accuracy == calculatePhonemeAccuracy(expectedWord, actualWord)
    IN  IF expectedWord # <<>> /\ actualWord # <<>>
        THEN << Issue(expectedWord, expectedWord, actualWord, i, accuracy,
                      determineIssueType(expectedWord, actualWord)) >>
        ELSE IF expectedWord # <<>> /\ actualWord = <<>>
        THEN << Issue(expectedWord, expectedWord, <<>>, i, 0, "missing") >>
        ELSE IF actualWord # <<>> /\ expectedWord = <<>>
        THEN << Issue(actualWord, <<>>, actualWord, i, 0, "extra") >>
        ELSE <<>>

\* The issues pushed by one iteration of the loop: none or one.
issuesAtSlot(expectedWords, actualWords, i) ==
    LET expectedWord == wordAt(expectedWords, i)
        actualWord == wordAt(actualWords, i)
        accuracy == calculatePhonemeAccuracy(expectedWord, actualWord)
    IN  IF expectedWord # <<>> /\ actualWord # <<>>
        THEN IF accuracy < 100
             THEN << Issue(expectedWord, expectedWord, actualWord, i, accuracy,
                           determineIssueType(expectedWord, actualWord)) >>
             ELSE <<>>
        ELSE IF expectedWord # <<>> /\ actualWord = <<>>
        THEN << Issue(expectedWord, expectedWord, <<>>, i, 0, "missing") >>
        ELSE IF actualWord # <<>> /\ expectedWord = <<>>
        THEN << Issue(actualWord, <<>>, actualWord, i, 0, "extra") >>
        ELSE <<>>

RECURSIVE issuesFrom(_, _, _, _)
issuesFrom(expectedWords, actualWords, i, maxLength) ==
    IF i >= maxLength THEN <<>>
    ELSE issuesAtSlot(expectedWords, actualWords, i)
         \o issuesFrom(expectedWords, actualWords, i + 1, maxLength)

\* Mutant: the texts are tokenized without case folding.
analyzePronunciationIssues_CaseSensitive(e, a) ==
    LET expectedWords == split(e)
        actualWords == split(a)
    IN  issuesFrom(expectedWords, actualWords, 0,
                   Max(Len(expectedWords), Len(actualWords)))

\* Mutant: a populated slot is reported only below the partial credit.
analyzePronunciationIssues_Below75(e, a) ==
    LET expectedWords == split(toLowerCase(e))
        actualWords == split(toLowerCase(a))
        reported(issue) == issue.type \in {"missing", "extra"} \/ issue.accuracy < 75
    IN  SelectSeq(issuesFrom(expectedWords, actualWords, 0,
                             Max(Len(expectedWords), Len(actualWords))),
                  reported)

\* Mutant: the loop stops at the shorter of the two token sequences.
analyzePronunciationIssues_MinLength(e, a) ==
    LET expectedWords == split(toLowerCase(e))
        actualWords == split(toLowerCase(a))
    IN  issuesFrom(expectedWords, actualWords, 0,
                   Min(Len(expectedWords), Len(actualWords)))

\* Mutant: the loop stops at the end of the expected token sequence.
analyzePronunciationIssues_ExpectedLength(e, a) ==
    LET expectedWords == split(toLowerCase(e))
        actualWords == split(toLowerCase(a))
    IN  issuesFrom(expectedWords, actualWords, 0, Len(expectedWords))

analyzePronunciationIssues(e, a) ==
    LET expectedWords == split(toLowerCase(e))
        actualWords == split(toLowerCase(a))
    IN  issuesFrom(expectedWords, actualWords, 0,
                   Max(Len(expectedWords), Len(actualWords)))

(***************************************************************************)
(* calculateOverallAccuracy: the rounded mean of the slot scores.          *)
(***************************************************************************)
\* What one iteration of the loop adds to totalScore.
slotScore(expectedWords, actualWords, i) ==
    LET expectedWord == wordAt(expectedWords, i)
        actualWord == wordAt(actualWords, i)
    IN  IF expectedWord # <<>> /\ actualWord # <<>>
        THEN calculatePhonemeAccuracy(expectedWord, actualWord)
        ELSE 0

RECURSIVE totalScoreFrom(_, _, _, _)
totalScoreFrom(expectedWords, actualWords, i, maxWords) ==
    IF i >= maxWords THEN 0
    ELSE slotScore(expectedWords, actualWords, i)
         + totalScoreFrom(expectedWords, actualWords, i + 1, maxWords)

\* Mutant: the total is divided by the number of expected tokens.
calculateOverallAccuracy_DivideByExpected(e, a) ==
    IF e = <<>> \/ a = <<>> THEN 0
    ELSE LET expectedWords == split(toLowerCase(e))
             actualWords == split(toLowerCase(a))
             maxWords == Max(Len(expectedWords), Len(actualWords))
         IN  IF Len(expectedWords) = 0 THEN 0
             ELSE round(totalScoreFrom(expectedWords, actualWords, 0, maxWords),
                        Len(expectedWords))

\* Mutant: identical texts are scored 100 before the empty-text guard.
calculateOverallAccuracy_IdenticalFirst(e, a) ==
    IF toLowerCase(e) = toLowerCase(a) THEN 100
    ELSE IF e = <<>> \/ a = <<>> THEN 0
    ELSE LET expectedWords == split(toLowerCase(e))
             actualWords == split(toLowerCase(a))
             maxWords == Max(Len(expectedWords), Len(actualWords))
         IN  IF Len(expectedWords) = 0 THEN 0
             ELSE round(totalScoreFrom(expectedWords, actualWords, 0, maxWords),
                        maxWords)

\* Mutant: the total is returned without the division by maxWords.
calculateOverallAccuracy_NoDivision(e, a) ==
    IF e = <<>> \/ a = <<>> THEN 0
    ELSE LET expectedWords == split(toLowerCase(e))
             actualWords == split(toLowerCase(a))
             maxWords == Max(Len(expectedWords), Len(actualWords))
         IN  totalScoreFrom(expectedWords, actualWords, 0, maxWords)

calculateOverallAccuracy(e, a) ==
    IF e = <<>> \/ a = <<>> THEN 0
    ELSE LET expectedWords == split(toLowerCase(e))
             actualWords == split(toLowerCase(a))
             maxWords == Max(Len(expectedWords), Len(actualWords))
         IN  IF Len(expectedWords) = 0 THEN 0
             ELSE round(totalScoreFrom(expectedWords, actualWords, 0, maxWords),
                        maxWords)

(***************************************************************************)
(* getPronunciationTips: the Set of tips, in insertion order.              *)
(***************************************************************************)
\* The switch: the message added for an issue type, or none.
tipFor(type) ==
    CASE type = "th_sound" ->
           <<"Practice 'th' sounds by placing your tongue between your teeth">>
      [] type = "r_l_confusion" ->
           <<"For 'R' sounds, curl your tongue back; for 'L' sounds, touch the roof of your mouth">>
      [] type = "vowel_confusion" ->
           <<"Pay attention to vowel length and mouth position">>
      [] type = "missing" ->
           <<"Try to pronounce all words clearly - some words may be getting lost">>
      [] type = "slight_mispronunciation" ->
           <<"You're close! Focus on clearer articulation">>
      [] OTHER -> <<>>

\* Set.prototype.add on the Set kept as the sequence of its insertions.
setAdd(set, values) ==
    IF values = <<>> \/ \E k \in 1..Len(set) : set[k] = values[1]
    THEN set
    ELSE Append(set, values[1])

RECURSIVE tipsFrom(_, _, _)
tipsFrom(list, k, set) ==
    IF k > Len(list) THEN set
    ELSE tipsFrom(list, k + 1, setAdd(set, tipFor(list[k].type)))

\* Mutant: the tips are collected in an array, without deduplication.
getPronunciationTips_NoDedup(list) ==
    LET RECURSIVE collect(_)
        collect(k) == IF k > Len(list) THEN <<>>
                      ELSE tipFor(list[k].type) \o collect(k + 1)
    IN  collect(1)

getPronunciationTips(list) == tipsFrom(list, 1, <<>>)

\* The types of the issues handed to getPronunciationTips by a caller: any.
IssueTypes ==
    { "th_sound", "r_l_confusion", "vowel_confusion", "missing",
      "slight_mispronunciation", "extra", "substitution", "other" }

\* A longer list, with every type that has a tip.
AllTypesList ==
    LET types == << "slight_mispronunciation", "missing", "extra", "missing",
                    "vowel_confusion", "r_l_confusion", "th_sound",
                    "substitution", "th_sound" >>
    IN  [k \in 1..Len(types) |-> Issue(<<>>, <<>>, <<>>, k - 1, 0, types[k])]

(***************************************************************************)
(* PronunciationTrainer: the game state kept over the recorded attempts,   *)
(* and the highlighting of the feedback view.                              *)
(***************************************************************************)
initialGameState ==
    [score |-> 0, streak |-> 0, totalAttempts |-> 0, bestScore |-> 0,
     averageScore |-> 0, completedPassages |-> 0]

\* Mutant: the streak grows from the score that completes a passage.
updateGameState_StreakAt70(prev, newScore) ==
    LET newTotalAttempts == prev.totalAttempts + 1
        newTotalScore == prev.averageScore * prev.totalAttempts + newScore
    IN  [score |-> newScore,
         streak |-> IF newScore >= 70 THEN prev.streak + 1 ELSE 0,
         totalAttempts |-> newTotalAttempts,
         bestScore |-> Max(prev.bestScore, newScore),
         averageScore |-> round(newTotalScore, newTotalAttempts),
         completedPassages |->
             prev.completedPassages + (IF newScore >= 70 THEN 1 ELSE 0)]

\* The updater handed to setGameState, for an attempt of score newScore.
updateGameState(prev, newScore) ==
    LET newTotalAttempts == prev.totalAttempts + 1
        newTotalScore == prev.averageScore * prev.totalAttempts + newScore
    IN  [score |-> newScore,
         streak |-> IF newScore >= 80 THEN prev.streak + 1 ELSE 0,
         totalAttempts |-> newTotalAttempts,
         bestScore |-> Max(prev.bestScore, newScore),
         averageScore |-> round(newTotalScore, newTotalAttempts),
         completedPassages |->
             prev.completedPassages + (IF newScore >= 70 THEN 1 ELSE 0)]

\* The attempt record (id, timestamp and audio are left out).
PracticeAttempt(passageText, transcription) ==
    LET pronunciationIssues == analyzePronunciationIssues(passageText, transcription)
    IN  [passageText |-> passageText,
         transcription |-> transcription,
         accuracyScore |-> calculateOverallAccuracy(passageText, transcription),
         mispronunciations |-> pronunciationIssues,
         pronunciationTips |-> getPronunciationTips(pronunciationIssues)]

\* SessionHistory: the Average Score over the attempts it is given.
RECURSIVE sumOfScores(_)
sumOfScores(list) ==
    IF list = <<>> THEN 0 ELSE Head(list).accuracyScore + sumOfScores(Tail(list))

sessionAverageScore(list) == round(sumOfScores(list), Len(list))

\* renderHighlightedText: the title of each word segment of the passage.
\* split(/(\s+)/) alternates words and separators, so the segment of index
\* 2 * wordIndex is the word of that index.
renderHighlightedText(attempt) ==
    LET expectedWords == split(attempt.passageText)
        actualWords == split(toLowerCase(attempt.transcription))
    IN  [k \in 1..Len(expectedWords) |->
            LET wordIndex == k - 1
                word == toLowerCase(expectedWords[k])
                actualWord == wordAt(actualWords, wordIndex)
            IN  IF wordIndex < Len(actualWords) /\ word = actualWord
                THEN "Correctly pronounced"
                ELSE IF wordIndex < Len(actualWords)
                THEN "Expected, You said"
                ELSE "Word not detected in recording"]

(***************************************************************************)
(* Inputs.  Single words exercise the word evaluator and the knowledge     *)
(* base; utterances are up to MaxWords words of a small vocabulary with    *)
(* optional white space before, between and after them.                    *)
(***************************************************************************)
SingleWords ==
    { <<>>, <<" ">>,
      <<"r">>, <<"l">>, <<"r","e","d">>, <<"l","e","d">>,
      <<"r","i","g","h","t">>, <<"l","i","g","h","t">>,
      <<"s","h","e","e","p">>, <<"s","h","i","p">>,
      <<"b","e","a","c","h">>, <<"b","i","t","c","h">>,
      <<"f","u","l","l">>, <<"f","o","o","l">>,
      <<"t","h">>, <<"f">>, <<"T","h">>, <<"F">>,
      <<"t","h","i","n","k">>, <<"f","i","n","k">>,
      <<"t","h","i","s">>, <<"d","i","s">>,
      <<"R","e","d">>, <<"L","E","D">>,
      <<"c","a","t">>, <<"c","a","r","t">>, <<"d","o","g">>,
      <<"t","h","r","e","e">>, <<"f","l","e","e">> }

\* Longer words: a pair of similarity 7/10, a pair of similarity 7/8, and a
\* pair of 40 characters of similarity 23/40.
LongWords ==
    { <<"m","i","c","r","o","p","h","o","n","e">>,
      <<"m","a","c","r","o","p","h","a","g","e">>,
      <<"c","o","m","p","u","t","e","r">>,
      <<"c","o","m","m","u","t","e","r">>,
      [k \in 1..40 |-> "a"],
      [k \in 1..40 |-> IF k <= 23 THEN "a" ELSE "b"] }

Vocabulary == { <<"T","h","i","s">>, <<"d","i","s">> }

Leading == { <<>>, <<" ">> }

Trailing == { <<>>, <<" ">> }

Separators == { <<" ">>, <<" ", "\t">> }

RECURSIVE join(_, _)
join(words, sep) ==
    IF Len(words) = 0 THEN <<>>
    ELSE IF Len(words) = 1 THEN words[1]
    ELSE words[1] \o sep \o join(Tail(words), sep)

WordLists == UNION { [1..n -> Vocabulary] : n \in 0..MaxWords }

Utterances ==
    { lead \o join(words, sep) \o trail :
        lead \in Leading, words \in WordLists, sep \in Separators,
        trail \in Trailing }

\* Passages of 24 words, the length of a practice passage: one long word
\* followed by 23 short ones.
LongTexts ==
    { join([k \in 1..24 |-> IF k = 1 THEN first ELSE <<"r">>], <<" ">>) :
        first \in { <<"c","o","m","p","u","t","e","r">>,
                    <<"c","o","m","m","u","t","e","r">> } }

Inputs ==
    (SingleWords \X SingleWords) \cup (LongWords \X LongWords)
        \cup (Utterances \X Utterances) \cup (LongTexts \X LongTexts)

(***************************************************************************)
(* The state machine: a pair of texts is given; either the word evaluator  *)
(* is applied to it, or the issue detector and then the aggregator (the    *)
(* order of PronunciationTrainer and DemoMode).  getPronunciationTips is    *)
(* also applied to lists that a caller builds itself, issue by issue.      *)
(***************************************************************************)
Init ==
    /\ \/ /\ \E input \in Inputs : expected = input[1] /\ actual = input[2]
          /\ pc = "idle"
          /\ issues = <<>>
       \/ /\ expected = <<>>
          /\ actual = <<>>
          /\ pc = "listed"
          /\ issues \in { <<>>, AllTypesList }
    /\ accuracyScore = -1
    /\ wordAccuracy = -1
    /\ stringSimilarity = <<>>
    /\ tips = <<>>
    /\ attempts = <<>>
    /\ gameState = initialGameState
    /\ highlighted = <<>>

CalculateStringSimilarity ==
    /\ pc = "idle"
    /\ stringSimilarity' = calculateStringSimilarity(expected, actual)
    /\ pc' = "similarity"
    /\ UNCHANGED <<expected, actual, issues, accuracyScore, wordAccuracy, tips>>
    /\ UNCHANGED trainerVars

CalculatePhonemeAccuracy ==
    /\ pc = "idle"
    /\ wordAccuracy' = calculatePhonemeAccuracy(expected, actual)
    /\ pc' = "word"
    /\ UNCHANGED <<expected, actual, issues, accuracyScore, stringSimilarity, tips>>
    /\ UNCHANGED trainerVars

AnalyzePronunciationIssues ==
    /\ pc = "idle"
    /\ issues' = analyzePronunciationIssues(expected, actual)
    /\ pc' = "analyzed"
    /\ UNCHANGED <<expected, actual, accuracyScore, wordAccuracy, stringSimilarity, tips>>
    /\ UNCHANGED trainerVars

CalculateOverallAccuracy ==
    /\ pc = "analyzed"
    /\ accuracyScore' = calculateOverallAccuracy(expected, actual)
    /\ pc' = "scored"
    /\ UNCHANGED <<expected, actual, issues, wordAccuracy, stringSimilarity, tips>>
    /\ UNCHANGED trainerVars

\* The caller of getPronunciationTips builds its list: one more issue, of
\* any type, is pushed.
PushIssue ==
    /\ pc = "listed"
    /\ Len(issues) < MaxIssues
    /\ \E type \in IssueTypes :
          issues' = Append(issues, Issue(<<>>, <<>>, <<>>, Len(issues), 0, type))
    /\ UNCHANGED <<expected, actual, pc, accuracyScore, wordAccuracy,
                   stringSimilarity, tips>>
    /\ UNCHANGED trainerVars

GetPronunciationTips ==
    /\ pc \in {"scored", "listed"}
    /\ tips' = getPronunciationTips(issues)
    /\ pc' = "tipped"
    /\ UNCHANGED <<expected, actual, issues, accuracyScore, wordAccuracy,
                   stringSimilarity>>
    /\ UNCHANGED trainerVars

Next ==
    \/ CalculateStringSimilarity
    \/ CalculatePhonemeAccuracy
    \/ AnalyzePronunciationIssues
    \/ CalculateOverallAccuracy
    \/ PushIssue
    \/ GetPronunciationTips

Spec == Init /\ [][Next]_vars

(***************************************************************************)
(* The trainer: a passage is selected, each transcription that arrives is  *)
(* recorded as an attempt, and the feedback view renders the latest one.   *)
(* expected is currentPassage, actual the trimmed transcription.           *)
(***************************************************************************)
Passages == { <<"T","h","i","s"," ","d","i","s">>, <<"T","h","i","s">> }

\* The joined chunk texts of the transcriber, before the trim.
TranscriberOutputs ==
    { <<>>,
      <<" ","T","h","i","s"," ","d","i","s">>,
      <<" ","d","i","s"," ","d","i","s">>,
      <<" ","d","i","s">>,
      <<" ","T","h","i","s">> }

InitTrainer ==
    /\ expected = <<>>
    /\ actual = <<>>
    /\ pc = "trainer"
    /\ issues = <<>>
    /\ accuracyScore = -1
    /\ wordAccuracy = -1
    /\ stringSimilarity = <<>>
    /\ tips = <<>>
    /\ attempts = <<>>
    /\ gameState = initialGameState
    /\ highlighted = <<>>

HandlePassageSelect ==
    /\ pc = "trainer"
    /\ \E passage \in Passages : expected' = passage
    /\ highlighted' = <<>>
    /\ UNCHANGED <<actual, pc, issues, accuracyScore, wordAccuracy,
                   stringSimilarity, tips, attempts, gameState>>

\* The effect on transcriber.output: the attempt is built, put in front of
\* the attempts and handed to updateGameState.
TranscriptionEffect ==
    /\ pc = "trainer"
    /\ expected # <<>>
    /\ Len(attempts) < MaxAttempts
    /\ \E output \in TranscriberOutputs :
          LET transcribedText == trim(output)
              newAttempt == PracticeAttempt(expected, transcribedText)
          IN  /\ actual' = transcribedText
              /\ issues' = newAttempt.mispronunciations
              /\ accuracyScore' = newAttempt.accuracyScore
              /\ tips' = newAttempt.pronunciationTips
              /\ attempts' = <<newAttempt>> \o attempts
              /\ gameState' = updateGameState(gameState, newAttempt.accuracyScore)
    /\ pc' = "recorded"
    /\ UNCHANGED <<expected, wordAccuracy, stringSimilarity, highlighted>>

\* PronunciationFeedback renders currentFeedback, the latest attempt.
RenderFeedback ==
    /\ pc = "recorded"
    /\ highlighted' = renderHighlightedText(attempts[1])
    /\ pc' = "trainer"
    /\ UNCHANGED <<expected, actual, issues, accuracyScore, wordAccuracy,
                   stringSimilarity, tips, attempts, gameState>>

NextTrainer ==
    \/ HandlePassageSelect
    \/ TranscriptionEffect
    \/ RenderFeedback

SpecTrainer == InitTrainer /\ [][NextTrainer]_vars

(***************************************************************************)
(* Vocabulary of the properties.                                           *)
(***************************************************************************)
upperCaseOf ==
    [c \in { LowerCase[k] : k \in 1..Len(LowerCase) } |->
        UpperCase[CHOOSE k \in 1..Len(LowerCase) : LowerCase[k] = c]]

toUpperCaseChar(c) == IF c \in DOMAIN upperCaseOf THEN upperCaseOf[c] ELSE c

toUpperCase(s) == [k \in 1..Len(s) |-> toUpperCaseChar(s[k])]

\* s with the case of its k-th character flipped.
flipCaseAt(s, k) ==
    [s EXCEPT ![k] = IF toLowerCaseChar(s[k]) = s[k]
                     THEN toUpperCaseChar(s[k]) ELSE toLowerCaseChar(s[k])]

\* s with the case of its first and of its last character flipped.
flipEnds(s) == IF s = <<>> THEN s ELSE flipCaseAt(flipCaseAt(s, 1), Len(s))

CaseVariants(s) == { toUpperCase(s), toLowerCase(s), flipEnds(s) }

\* What an issue list says apart from the words themselves.
IssueView(list) ==
    [k \in 1..Len(list) |->
        <<list[k].position, list[k].type, list[k].accuracy>>]

ExpectedTokens == split(toLowerCase(expected))

ActualTokens == split(toLowerCase(actual))

SlotCount == Max(Len(ExpectedTokens), Len(ActualTokens))

Populated(words, i) == i < Len(words) /\ words[i + 1] # <<>>

IssuesAt(i) == { k \in 1..Len(issues) : issues[k].position = i }

\* The whole-word pairs of the R/L and the vowel-confusion table.
ListedPairs ==
    { << <<"r","e","d">>, <<"l","e","d">> >>,
      << <<"r","i","g","h","t">>, <<"l","i","g","h","t">> >>,
      << <<"r">>, <<"l">> >>,
      << <<"s","h","e","e","p">>, <<"s","h","i","p">> >>,
      << <<"b","e","a","c","h">>, <<"b","i","t","c","h">> >>,
      << <<"f","u","l","l">>, <<"f","o","o","l">> >> }

ThSubstitutes == { <<"f">>, <<"v">>, <<"d">>, <<"t">>, <<"s">>, <<"z">> }

KnownConfusion(e, a) ==
    \/ <<e, a>> \in ListedPairs
    \/ <<a, e>> \in ListedPairs
    \/ includes(e, <<"t","h">>) /\ \E sub \in ThSubstitutes : includes(a, sub)

SimilarityScore(e, a) ==
    LET similarity == calculateStringSimilarity(e, a)
    IN  round(similarity[1] * 100, similarity[2])

(***************************************************************************)
(* C1: for every non-empty text s, with or without white space at its      *)
(* ends, calculateOverallAccuracy(s, s) is 100.                            *)
(***************************************************************************)
C1_IdenticalTextsScore100 ==
    (pc = "scored" /\ expected = actual /\ expected # <<>>)
        => accuracyScore = 100

(***************************************************************************)
(* C2: calculateOverallAccuracy is 0 whenever the expected or the actual   *)
(* text is the empty string, whatever the other text is.                   *)
(***************************************************************************)
C2_EmptyTextScoresZero ==
    (pc = "scored" /\ (expected = <<>> \/ actual = <<>>))
        => accuracyScore = 0

C2_Witness ==
    /\ pc = "scored"
    /\ expected = <<>>
    /\ Len(actual) > 1
    /\ accuracyScore = 0

(***************************************************************************)
(* C3: white space before or after either text changes neither the overall *)
(* score nor the positions, types and accuracies of the issues.            *)
(***************************************************************************)
C3_OuterWhiteSpaceInsignificant ==
    pc = "scored" =>
        /\ accuracyScore = calculateOverallAccuracy(trim(expected), trim(actual))
        /\ IssueView(issues)
             = IssueView(analyzePronunciationIssues(trim(expected), trim(actual)))

(***************************************************************************)
(* C4: two non-empty words that differ case-insensitively and match the    *)
(* knowledge base score exactly 75, whatever their similarity is.          *)
(***************************************************************************)
C4_KnowledgeBaseMatchScores75 ==
    pc = "word" =>
        LET e == trim(toLowerCase(expected))
            a == trim(toLowerCase(actual))
        IN  (expected # <<>> /\ actual # <<>> /\ e # a /\ KnownConfusion(e, a))
                => wordAccuracy = 75

C4_Witness ==
    /\ pc = "word"
    /\ toLowerCase(expected) # toLowerCase(actual)
    /\ KnownConfusion(toLowerCase(expected), toLowerCase(actual))
    /\ SimilarityScore(toLowerCase(expected), toLowerCase(actual)) > 75
    /\ wordAccuracy = 75

(***************************************************************************)
(* C5: each listed whole-word pair scores 75 in both orders.               *)
(***************************************************************************)
C5_ListedPairsSymmetric ==
    (pc = "word" /\ (<<expected, actual>> \in ListedPairs
                     \/ <<actual, expected>> \in ListedPairs))
        => /\ wordAccuracy = 75
           /\ calculatePhonemeAccuracy(actual, expected) = 75

C5_Witness ==
    /\ pc = "word"
    /\ <<actual, expected>> \in ListedPairs
    /\ wordAccuracy = 75

(***************************************************************************)
(* C6: changing the letter case of the expected or of the actual text      *)
(* changes neither the overall score nor the positions, types and          *)
(* accuracies of the issues.                                               *)
(***************************************************************************)
C6_CaseInsensitive ==
    pc = "scored" =>
        \A e \in CaseVariants(expected) \cup {expected} :
            \A a \in {toUpperCase(actual), actual} :
                /\ calculateOverallAccuracy(e, a) = accuracyScore
                /\ IssueView(analyzePronunciationIssues(e, a)) = IssueView(issues)

C6_Witness ==
    /\ pc = "scored"
    /\ toLowerCase(expected) # expected
    /\ toUpperCase(actual) # actual
    /\ issues # <<>>
    /\ accuracyScore > 0

(***************************************************************************)
(* C7: at a slot where both tokens are populated there is an issue exactly *)
(* when the word accuracy of the two tokens is below 100; the issue        *)
(* carries that accuracy and the two tokens of that slot, whatever the     *)
(* tokens of the other slots are.                                          *)
(***************************************************************************)
C7_PopulatedSlotIssue ==
    pc = "analyzed" =>
        \A i \in 0..(SlotCount - 1) :
            (Populated(ExpectedTokens, i) /\ Populated(ActualTokens, i)) =>
                LET accuracy == calculatePhonemeAccuracy(ExpectedTokens[i + 1],
                                                         ActualTokens[i + 1])
                IN  /\ Cardinality(IssuesAt(i)) = (IF accuracy < 100 THEN 1 ELSE 0)
                    /\ \A k \in IssuesAt(i) :
                          /\ issues[k].accuracy = accuracy
                          /\ issues[k].expected = ExpectedTokens[i + 1]
                          /\ issues[k].actual = ActualTokens[i + 1]

C7_Witness ==
    /\ pc = "analyzed"
    /\ \E i \in 1..(SlotCount - 1) :
          /\ Populated(ExpectedTokens, i) /\ Populated(ActualTokens, i)
          /\ Populated(ExpectedTokens, i - 1) /\ ~Populated(ActualTokens, i - 1)
          /\ \E k \in IssuesAt(i) : issues[k].accuracy = 75

(***************************************************************************)
(* C8: a slot whose expected token is populated and whose actual token is  *)
(* absent gets exactly one issue, of type missing, with accuracy 0, the    *)
(* expected token and an empty actual word; no other slot gets an issue of *)
(* type missing.                                                           *)
(***************************************************************************)
C8_MissingIssue ==
    pc = "analyzed" =>
        /\ \A i \in 0..(SlotCount - 1) :
              (Populated(ExpectedTokens, i) /\ ~Populated(ActualTokens, i)) =>
                  /\ Cardinality(IssuesAt(i)) = 1
                  /\ \A k \in IssuesAt(i) :
                        /\ issues[k].type = "missing"
                        /\ issues[k].accuracy = 0
                        /\ issues[k].expected = ExpectedTokens[i + 1]
                        /\ issues[k].actual = <<>>
        /\ \A k \in 1..Len(issues) :
              issues[k].type = "missing" =>
                  /\ Populated(ExpectedTokens, issues[k].position)
                  /\ ~Populated(ActualTokens, issues[k].position)

C8_Witness ==
    /\ pc = "analyzed"
    /\ Len(ActualTokens) < Len(ExpectedTokens)
    /\ \E k \in 1..Len(issues) :
          /\ issues[k].type = "missing"
          /\ issues[k].position >= Len(ActualTokens)

(***************************************************************************)
(* C9: a slot whose actual token is populated and whose expected token is  *)
(* absent gets exactly one issue, of type extra, with accuracy 0, an empty *)
(* expected word and the actual token; no other slot gets an issue of type *)
(* extra.                                                                  *)
(***************************************************************************)
C9_ExtraIssue ==
    pc = "analyzed" =>
        /\ \A i \in 0..(SlotCount - 1) :
              (Populated(ActualTokens, i) /\ ~Populated(ExpectedTokens, i)) =>
                  /\ Cardinality(IssuesAt(i)) = 1
                  /\ \A k \in IssuesAt(i) :
                        /\ issues[k].type = "extra"
                        /\ issues[k].accuracy = 0
                        /\ issues[k].expected = <<>>
                        /\ issues[k].actual = ActualTokens[i + 1]
        /\ \A k \in 1..Len(issues) :
              issues[k].type = "extra" =>
                  /\ Populated(ActualTokens, issues[k].position)
                  /\ ~Populated(ExpectedTokens, issues[k].position)

C9_Witness ==
    /\ pc = "analyzed"
    /\ Len(ActualTokens) > Len(ExpectedTokens)
    /\ \E k \in 1..Len(issues) :
          /\ issues[k].type = "extra"
          /\ issues[k].position >= Len(ExpectedTokens)

(***************************************************************************)
(* C10: for every text s, analyzePronunciationIssues(s, s) is empty.       *)
(***************************************************************************)
C10_IdenticalTextsNoIssue ==
    (pc = "analyzed" /\ expected = actual) => issues = <<>>

C10_Witness ==
    /\ pc = "analyzed"
    /\ expected = actual
    /\ Len(ExpectedTokens) > 2
    /\ issues = <<>>

(***************************************************************************)
(* C11: the aggregator and the detector agree on every slot: a slot adds   *)
(* 100 to the total exactly when it has no issue, and otherwise adds the   *)
(* accuracy of its issue; so the overall score is                          *)
(* round((100 * (N - number of issues) + sum of issue accuracies) / N).    *)
(***************************************************************************)
RECURSIVE SumOfAccuracies(_)
SumOfAccuracies(list) ==
    IF list = <<>> THEN 0 ELSE Head(list).accuracy + SumOfAccuracies(Tail(list))

C11_AggregatorAgreesWithDetector ==
    (pc = "scored" /\ expected # <<>> /\ actual # <<>>) =>
        /\ \A i \in 0..(SlotCount - 1) :
              /\ (slotScore(ExpectedTokens, ActualTokens, i) = 100)
                    <=> (IssuesAt(i) = {})
              /\ \A k \in IssuesAt(i) :
                    issues[k].accuracy = slotScore(ExpectedTokens, ActualTokens, i)
        /\ accuracyScore
             = round(100 * (SlotCount - Len(issues)) + SumOfAccuracies(issues),
                     SlotCount)

(***************************************************************************)
(* C12: for non-empty texts the overall score is round(S / N), N the       *)
(* larger token count and S the sum over the slots of the word accuracy of *)
(* the two tokens, or 0 where a token is missing.                          *)
(***************************************************************************)
RECURSIVE SumOverSlots(_)
SumOverSlots(n) ==
    IF n = 0 THEN 0
    ELSE SumOverSlots(n - 1)
         + (IF Populated(ExpectedTokens, n - 1) /\ Populated(ActualTokens, n - 1)
            THEN calculatePhonemeAccuracy(ExpectedTokens[n], ActualTokens[n])
            ELSE 0)

C12_OverallIsRoundedMean ==
    (pc = "scored" /\ expected # <<>> /\ actual # <<>>)
        => accuracyScore = round(SumOverSlots(SlotCount), SlotCount)

C12_Witness ==
    /\ pc = "scored"
    /\ Len(ExpectedTokens) = 2
    /\ Len(ActualTokens) = 3
    /\ SumOverSlots(SlotCount) = 175
    /\ accuracyScore = 58

(***************************************************************************)
(* C13: a mismatched pair of populated words that matches the knowledge    *)
(* base is labelled th_sound, r_l_confusion or vowel_confusion, never      *)
(* slight_mispronunciation or substitution, also when its similarity is    *)
(* above 0.7.                                                              *)
(***************************************************************************)
PopulatedIssues ==
    { k \in 1..Len(issues) : issues[k].expected # <<>> /\ issues[k].actual # <<>> }

KnowledgeBaseTypes == { "th_sound", "r_l_confusion", "vowel_confusion" }

C13_KnowledgeBaseHasPriority ==
    pc = "analyzed" =>
        \A k \in PopulatedIssues :
            KnownConfusion(issues[k].expected, issues[k].actual)
                => issues[k].type \in KnowledgeBaseTypes

C13_Witness ==
    /\ pc = "analyzed"
    /\ \E k \in PopulatedIssues :
          /\ KnownConfusion(issues[k].expected, issues[k].actual)
          /\ LET similarity == calculateStringSimilarity(issues[k].expected,
                                                         issues[k].actual)
             IN  10 * similarity[1] > 7 * similarity[2]
          /\ issues[k].type = "r_l_confusion"

(***************************************************************************)
(* C14: a knowledge-base match is labelled th_sound if the expected word   *)
(* contains "th"; otherwise r_l_confusion if one word contains r and the   *)
(* other l; otherwise vowel_confusion.  So the pairs of the R/L table are  *)
(* r_l_confusion, those of the vowel table vowel_confusion, and the "th"   *)
(* matches th_sound.                                                       *)
(***************************************************************************)
RLPairs ==
    { << <<"r","e","d">>, <<"l","e","d">> >>,
      << <<"r","i","g","h","t">>, <<"l","i","g","h","t">> >>,
      << <<"r">>, <<"l">> >> }

VowelPairs == ListedPairs \ RLPairs

BranchOrderType(e, a) ==
    IF includes(e, <<"t","h">>) THEN "th_sound"
    ELSE IF \/ includes(e, <<"r">>) /\ includes(a, <<"l">>)
            \/ includes(e, <<"l">>) /\ includes(a, <<"r">>)
         THEN "r_l_confusion"
         ELSE "vowel_confusion"

C14_BranchOrder ==
    pc = "analyzed" =>
        \A k \in PopulatedIssues :
            LET e == issues[k].expected
                a == issues[k].actual
            IN  /\ KnownConfusion(e, a) => issues[k].type = BranchOrderType(e, a)
                /\ (<<e, a>> \in RLPairs \/ <<a, e>> \in RLPairs)
                      => issues[k].type = "r_l_confusion"
                /\ (<<e, a>> \in VowelPairs \/ <<a, e>> \in VowelPairs)
                      => issues[k].type = "vowel_confusion"
                /\ (includes(e, <<"t","h">>)
                      /\ \E sub \in ThSubstitutes : includes(a, sub))
                      => issues[k].type = "th_sound"

C14_Witness ==
    /\ pc = "analyzed"
    /\ \E k \in PopulatedIssues :
          /\ includes(issues[k].expected, <<"t","h">>)
          /\ includes(issues[k].expected, <<"r">>)
          /\ includes(issues[k].actual, <<"l">>)
          /\ issues[k].type = "th_sound"

(***************************************************************************)
(* C15: a mismatched pair of populated words without a knowledge-base      *)
(* match is slight_mispronunciation exactly when 10 * distance is below    *)
(* 3 * the longer length, and substitution otherwise; a similarity of      *)
(* exactly 0.70 is substitution.                                           *)
(***************************************************************************)
C15_SimilarityThreshold ==
    pc = "analyzed" =>
        \A k \in PopulatedIssues :
            LET e == issues[k].expected
                a == issues[k].actual
                longer == Max(Len(e), Len(a))
            IN  ~KnownConfusion(e, a) =>
                    issues[k].type = IF 10 * levenshtein(e, a) < 3 * longer
                                     THEN "slight_mispronunciation"
                                     ELSE "substitution"

C15_Witness ==
    /\ pc = "analyzed"
    /\ \E k \in PopulatedIssues :
          /\ ~KnownConfusion(issues[k].expected, issues[k].actual)
          /\ 10 * levenshtein(issues[k].expected, issues[k].actual)
                = 3 * Max(Len(issues[k].expected), Len(issues[k].actual))
          /\ issues[k].type = "substitution"

(***************************************************************************)
(* C16: the tips are one message per category among th_sound,              *)
(* r_l_confusion, vowel_confusion, missing and slight_mispronunciation     *)
(* that occurs in the list, without duplicates, in the order in which the  *)
(* categories first occur; the other types give no tip.                    *)
(***************************************************************************)
TipCategories ==
    { "th_sound", "r_l_confusion", "vowel_confusion", "missing",
      "slight_mispronunciation" }

CategoriesPresent ==
    { c \in TipCategories : \E k \in 1..Len(issues) : issues[k].type = c }

FirstOccurrence(c) ==
    CHOOSE k \in 1..Len(issues) :
        /\ issues[k].type = c
        /\ \A j \in 1..(k - 1) : issues[j].type # c

C16_TipsPerCategoryInOrder ==
    pc = "tipped" =>
        /\ Len(tips) = Cardinality(CategoriesPresent)
        /\ Len(tips) <= 5
        /\ \A i, j \in 1..Len(tips) : i # j => tips[i] # tips[j]
        /\ \A i \in 1..Len(tips) :
              \E c \in CategoriesPresent :
                  /\ tips[i] = tipFor(c)[1]
                  /\ Cardinality({ b \in CategoriesPresent :
                                     FirstOccurrence(b) < FirstOccurrence(c) })
                        = i - 1

C16_Witness ==
    /\ pc = "tipped"
    /\ issues = AllTypesList
    /\ Len(tips) = 5
    /\ tips[1] = tipFor("slight_mispronunciation")[1]
    /\ tips[2] = tipFor("missing")[1]
    /\ tips[5] = tipFor("th_sound")[1]

(***************************************************************************)
(* C17: for non-empty strings the similarity is (L - d) / L, L the longer  *)
(* length and d the Levenshtein distance; so similarity(a, a) = 1,         *)
(* similarity(a, b) = similarity(b, a) and similarity("cat", "dog") = 0.   *)
(***************************************************************************)
\* The Levenshtein distance by its recursive definition.
RECURSIVE EditDistance(_, _)
EditDistance(a, b) ==
    IF a = <<>> THEN Len(b)
    ELSE IF b = <<>> THEN Len(a)
    ELSE Min(EditDistance(Tail(a), Tail(b)) + (IF Head(a) = Head(b) THEN 0 ELSE 1),
             Min(EditDistance(Tail(a), b) + 1, EditDistance(a, Tail(b)) + 1))

SameFraction(p, q) == p[1] * q[2] = q[1] * p[2]

C17_SimilarityIsLevenshteinRatio ==
    (pc = "similarity" /\ expected # <<>> /\ actual # <<>>) =>
        LET longer == Max(Len(expected), Len(actual))
        IN  /\ longer <= 5 =>
                  SameFraction(stringSimilarity,
                               <<longer - EditDistance(expected, actual), longer>>)
            /\ expected = actual => SameFraction(stringSimilarity, <<1, 1>>)
            /\ SameFraction(stringSimilarity,
                            calculateStringSimilarity(actual, expected))
            /\ (expected = <<"c","a","t">> /\ actual = <<"d","o","g">>)
                  => SameFraction(stringSimilarity, <<0, 1>>)

C17_Witness ==
    /\ pc = "similarity"
    /\ expected = <<"t","h","r","e","e">>
    /\ actual = <<"f","l","e","e">>
    /\ EditDistance(expected, actual) = 3
    /\ stringSimilarity = <<2, 5>>

(***************************************************************************)
(* C18: the similarity is in [0, 1]; it is 1 when both strings are empty   *)
(* and 0 when exactly one is.                                              *)
(***************************************************************************)
C18_SimilarityRange ==
    pc = "similarity" =>
        /\ stringSimilarity[2] > 0
        /\ 0 <= stringSimilarity[1]
        /\ stringSimilarity[1] <= stringSimilarity[2]
        /\ (expected = <<>> /\ actual = <<>>)
              => stringSimilarity[1] = stringSimilarity[2]
        /\ ((expected = <<>>) # (actual = <<>>)) => stringSimilarity[1] = 0

C18_Witness ==
    /\ pc = "similarity"
    /\ expected = <<>>
    /\ actual = <<>>
    /\ stringSimilarity = <<1, 1>>

(***************************************************************************)
(* C19: for two non-empty words that differ when case is ignored and match *)
(* no knowledge-base entry, calculatePhonemeAccuracy is the integer        *)
(* nearest to 100 * (L - d) / L, halves rounded up, with L the length of   *)
(* the longer lowercased, trimmed word and d their Levenshtein distance.   *)
(***************************************************************************)
C19_AccuracyIsNearestPercent ==
    pc = "word" =>
        LET e == trim(toLowerCase(expected))
            a == trim(toLowerCase(actual))
            L == Max(Len(e), Len(a))
            d == levenshtein(e, a)
        IN  (/\ expected # <<>> /\ actual # <<>>
             /\ toLowerCase(expected) # toLowerCase(actual)
             /\ ~KnownConfusion(e, a)
             /\ L > 0)
                => wordAccuracy = round(100 * (L - d), L)

(***************************************************************************)
(* C20: calculatePhonemeAccuracy is 0 whenever either word is empty after  *)
(* trimming; a word of white space only never scores above 0.              *)
(***************************************************************************)
C20_WhiteSpaceWordScoresZero ==
    (pc = "word" /\ (trim(expected) = <<>> \/ trim(actual) = <<>>))
        => wordAccuracy = 0

(***************************************************************************)
(* C21: every score of the engine is an integer in 0..100: the word        *)
(* accuracy, the overall accuracy, and the accuracy of every issue.        *)
(***************************************************************************)
C21_ScoresInRange ==
    /\ pc = "word" => wordAccuracy \in 0..100
    /\ pc = "scored" => accuracyScore \in 0..100
    /\ pc = "analyzed" => \A k \in 1..Len(issues) : issues[k].accuracy \in 0..100

C21_Witness ==
    /\ pc = "scored"
    /\ accuracyScore > 0
    /\ accuracyScore < 100
    /\ \E k \in 1..Len(issues) : issues[k].accuracy \in 1..99

(***************************************************************************)
(* C22: the engine is total.  For any two strings the word evaluator, the  *)
(* detector and the aggregator return a result, and no division has a zero *)
(* divisor: maxLen of the similarity and maxWords of the aggregator are at *)
(* least 1 whenever the division is reached.                               *)
(***************************************************************************)
C22_NoZeroDivisor ==
    /\ pc = "similarity" =>
          /\ stringSimilarity[2] >= 1
          /\ (expected # <<>> /\ actual # <<>>)
                => stringSimilarity[2] = Max(Len(expected), Len(actual))
    /\ pc = "word" => wordAccuracy \in Nat
    /\ pc = "analyzed" => Len(issues) \in Nat
    /\ pc = "scored" =>
          /\ accuracyScore \in Nat
          /\ (expected # <<>> /\ actual # <<>>) => SlotCount >= 1

C22_Witness ==
    /\ pc = "scored"
    /\ expected # <<>>
    /\ trim(expected) = <<>>
    /\ trim(actual) # <<>>
    /\ Len(ExpectedTokens) # Len(ActualTokens)
    /\ accuracyScore = 0

(***************************************************************************)
(* C23: the issue list of analyzePronunciationIssues has at most one issue *)
(* per slot, strictly increasing positions, every position below the       *)
(* larger of the two token counts, and in every issue expected differs     *)
(* from actual and the accuracy is below 100.                              *)
(***************************************************************************)
C23_IssueListWellFormed ==
    pc = "analyzed" =>
        /\ \A i \in 0..(SlotCount - 1) : Cardinality(IssuesAt(i)) <= 1
        /\ \A k \in 1..(Len(issues) - 1) :
              issues[k].position < issues[k + 1].position
        /\ \A k \in 1..Len(issues) :
              /\ issues[k].position >= 0
              /\ issues[k].position < SlotCount
              /\ issues[k].expected # issues[k].actual
              /\ issues[k].accuracy < 100

C23_Witness ==
    /\ pc = "analyzed"
    /\ Len(issues) = 2
    /\ SlotCount = 3
    /\ issues[1].position = 1
    /\ issues[1].accuracy \in 1..99
    /\ issues[2].position = 2
    /\ issues[2].type = "missing"

(***************************************************************************)
(* C24: for two non-empty texts the overall accuracy is 100 if and only if *)
(* the issue list of the same texts is empty.                              *)
(***************************************************************************)
C24_PerfectScoreIffNoIssue ==
    (pc = "scored" /\ expected # <<>> /\ actual # <<>>)
        => (accuracyScore = 100 <=> issues = <<>>)

(***************************************************************************)
(* C25: after any sequence of recorded attempts gameState.averageScore is  *)
(* the rounded arithmetic mean of the scores of all attempts recorded so   *)
(* far, the Average Score of SessionHistory.                               *)
(***************************************************************************)
C25_AverageIsRoundedMean ==
    attempts # <<>> => gameState.averageScore = sessionAverageScore(attempts)

(***************************************************************************)
(* C26: after any sequence of recorded attempts gameState.streak is the    *)
(* number of latest attempts in a row that scored at least 80; it is       *)
(* positive exactly when the latest attempt scored at least 80.            *)
(***************************************************************************)
RECURSIVE LatestRun(_)
LatestRun(list) ==
    IF list = <<>> \/ Head(list).accuracyScore < 80 THEN 0
    ELSE 1 + LatestRun(Tail(list))

C26_StreakIsLatestRun ==
    /\ gameState.streak = LatestRun(attempts)
    /\ gameState.streak > 0
          <=> (attempts # <<>> /\ attempts[1].accuracyScore >= 80)

C26_Witness ==
    /\ Len(attempts) = 3
    /\ attempts[3].accuracyScore >= 80
    /\ attempts[2].accuracyScore \in 70..79
    /\ attempts[1].accuracyScore >= 80
    /\ gameState.streak = 1

(***************************************************************************)
(* C27: the highlighting of the feedback view agrees with the issue list   *)
(* of the same attempt: the passage word of index i is marked 'Correctly   *)
(* pronounced' exactly when no issue has position i, and 'Word not         *)
(* detected in recording' exactly when the issue at i has type 'missing'.  *)
(***************************************************************************)
C27_HighlightAgreesWithIssues ==
    (pc = "trainer" /\ highlighted # <<>>) =>
        LET list == attempts[1].mispronunciations
            at(i) == { k \in 1..Len(list) : list[k].position = i }
        IN  \A i \in 0..(Len(highlighted) - 1) :
               /\ highlighted[i + 1] = "Correctly pronounced" <=> at(i) = {}
               /\ highlighted[i + 1] = "Word not detected in recording"
                     <=> \E k \in at(i) : list[k].type = "missing"

====
